---- MODULE Spec2Model ----
(***************************************************************************)
(* Branch-and-bound knapsack solvers of fhamonic/knapstack:               *)
(*   Knapstack::BranchAndBound           (0/1 variant)                     *)
(*   UnboundedKnapstack::BranchAndBound  (unbounded variant)               *)
(* Both are modelled as one state machine whose steps are the basic       *)
(* blocks of solve and iterative_bnb.  Positions and indices are 0-based, *)
(* as in the source; the sequences that hold them are 1-based.            *)
(***************************************************************************)
EXTENDS Integers, Sequences, FiniteSets, TLC

(***************************************************************************)
(* Bounds of the model.                                                    *)
(***************************************************************************)
MaxItems == 2
MaxValue == 2
MaxCost == 2
MaxBudget == 3
\* How far below zero a copy count is followed before the run is cut off.
MaxUnderflow == 2
\* Bounds of the wider instances of SpecWide.
WideMaxItems == 3
WideMaxBudget == 9

VARIABLES
    variant,       \* which BranchAndBound class runs
    items,         \* Instance::items
    budget,        \* Instance::budget
    sorted_items,  \* solve: the working list
    permuted_id,   \* solve: working-list position -> original index
    pc,            \* position in solve / iterative_bnb
    depth,         \* iterative_bnb locals
    value,
    budget_left,
    best_value,
    stack,
    best_stack,
    taken,         \* Solution::_taken / Solution::_nb_taken
    err,           \* undefined behaviour met so far
    garbage,       \* what a read past the end of sorted_items returns
    earlier        \* the caller's note of an earlier solve: its budget and total

vars == <<variant, items, budget, sorted_items, permuted_id, pc, depth, value,
          budget_left, best_value, stack, best_stack, taken, err, garbage,
          earlier>>

Variants == {"zero_one", "unbounded"}

\* Instance::Item
Item(v, c) == [value |-> v, cost |-> c]

ItemKinds == {Item(v, c) : v \in 0..MaxValue, c \in 0..MaxCost}

\* The values and costs of the wider instances.
WideNumbers == {2, 3, 5}

WideKinds == {Item(v, c) : v \in WideNumbers, c \in WideNumbers}

SeqsUpTo(S, n) == UNION {[1..k -> S] : k \in 0..n}

RECURSIVE SumSeq(_)
SumSeq(s) == IF s = <<>> THEN 0 ELSE Head(s) + SumSeq(Tail(s))

(***************************************************************************)
(* Item::getRatio and Item::operator<.  getRatio is a double: value/cost, *)
(* or DBL_MAX when cost == 0.  Ratios of small integers compare as the    *)
(* exact fractions do, and DBL_MAX exceeds every one of them.             *)
(***************************************************************************)
RatioGreater(a, b) ==
    IF a.cost = 0 THEN b.cost # 0
    ELSE IF b.cost = 0 THEN FALSE
    ELSE a.value * b.cost > b.value * a.cost

\* a < b of Item: a sorts before b
ItemLess(a, b) == RatioGreater(a, b)

(***************************************************************************)
(* bound_value + bound_budget_left * item.getRatio(), as the fraction     *)
(* num/den.  The branch is taken with bound_budget_left <= item.cost, so  *)
(* for cost == 0 the product is 0 * DBL_MAX == 0.                         *)
(***************************************************************************)
FractionalBound(bv, bl, item) ==
    IF item.cost = 0 THEN [num |-> bv, den |-> 1, div0 |-> FALSE]
    ELSE [num |-> bv * item.cost + bl * item.value, den |-> item.cost,
          div0 |-> FALSE]

\* Knapstack::BranchAndBound::computeUpperBound
RECURSIVE computeUpperBound(_, _, _, _)
computeUpperBound(s, d, bv, bl) ==
    IF d >= Len(s) THEN [num |-> bv, den |-> 1, div0 |-> FALSE]
    ELSE LET item == s[d + 1] IN
         IF bl <= item.cost THEN FractionalBound(bv, bl, item)
         ELSE computeUpperBound(s, d + 1, bv + item.value, bl - item.cost)

(***************************************************************************)
(* The integer division a / b of lines 278 and 305.  Dividing by zero is  *)
(* undefined: the division traps (the run crashes, modelled by the        *)
(* actions) or, on hardware whose divide does not trap, yields 0.         *)
(***************************************************************************)
Quotient(a, b) == IF b = 0 THEN 0 ELSE a \div b

\* UnboundedKnapstack::BranchAndBound::computeUpperBound; div0 tells that the
\* scan divided by a zero cost.
RECURSIVE computeUpperBoundUnbounded(_, _, _, _)
computeUpperBoundUnbounded(s, d, bv, bl) ==
    IF d >= Len(s) THEN [num |-> bv, den |-> 1, div0 |-> FALSE]
    ELSE LET item == s[d + 1] IN
         IF bl <= item.cost THEN FractionalBound(bv, bl, item)
         ELSE LET nb_take == Quotient(bl, item.cost)
                  rest == computeUpperBoundUnbounded(s, d + 1,
                              bv + nb_take * item.value, bl - nb_take * item.cost)
              IN [rest EXCEPT !.div0 = @ \/ item.cost = 0]

UpperBound(s, d, bv, bl) ==
    IF variant = "zero_one" THEN computeUpperBound(s, d, bv, bl)
    ELSE computeUpperBoundUnbounded(s, d, bv, bl)

\* A pruning test that also abandons a node whose bound is best + 1.
BoundLeqLoose(b, best) == b.num <= (best + 1) * b.den

\* computeUpperBound(...) <= best_value
BoundLeq(b, best) == b.num <= best * b.den

\* A filter that also drops the items whose cost equals the budget.
RECURSIVE KeptIdsStrict(_, _, _)
KeptIdsStrict(its, b, i) ==
    IF i > Len(its) THEN <<>>
    ELSE IF its[i].cost >= b THEN KeptIdsStrict(its, b, i + 1)
    ELSE <<i - 1>> \o KeptIdsStrict(its, b, i + 1)

(***************************************************************************)
(* solve, lines 68-79: remove_if keeps the items with cost <= budget in   *)
(* their order; sort then leaves any order in which no item is followed   *)
(* by one of strictly greater ratio (ranges::sort is not stable).         *)
(***************************************************************************)
RECURSIVE KeptIds(_, _, _)
KeptIds(its, b, i) ==
    IF i > Len(its) THEN <<>>
    ELSE IF its[i].cost > b THEN KeptIds(its, b, i + 1)
    ELSE <<i - 1>> \o KeptIds(its, b, i + 1)

IsSortedIds(its, ids) ==
    \A i, j \in 1..Len(ids) :
        i < j => ~ItemLess(its[ids[j] + 1], its[ids[i] + 1])

SortedOrders(its, b) ==
    LET kept == KeptIds(its, b, 1)
        n == Len(kept)
    IN {ids \in {[i \in 1..n |-> kept[p[i]]] : p \in Permutations(1..n)} :
           IsSortedIds(its, ids)}

\* sorted_items[d], also past the end of the vector
ItemAt(d) == IF d < Len(sorted_items) THEN sorted_items[d + 1] ELSE garbage

\* Solution::getValue and Solution::getCost
getValue == SumSeq([i \in 1..Len(items) |-> taken[i] * items[i].value])

getCost == SumSeq([i \in 1..Len(items) |-> taken[i] * items[i].cost])

StackValue(st) ==
    SumSeq([k \in 1..Len(st) |-> st[k].count * ItemAt(st[k].pos).value])

StackCost(st) ==
    SumSeq([k \in 1..Len(st) |-> st[k].count * ItemAt(st[k].pos).cost])

(***************************************************************************)
(* Initial states: an Instance as built by setBudget and addItem, before  *)
(* solve is called.                                                        *)
(***************************************************************************)
InitOf(vs, its, b) ==
    /\ variant \in vs
    /\ items \in its
    /\ budget \in b
    /\ sorted_items = <<>>
    /\ permuted_id = <<>>
    /\ pc = "solve"
    /\ depth = 0
    /\ value = 0
    /\ budget_left = 0
    /\ best_value = 0
    /\ stack = <<>>
    /\ best_stack = <<>>
    /\ taken = <<>>
    /\ err = "none"
    /\ garbage = Item(0, 0)
    /\ earlier = <<>>

Init == InitOf(Variants, SeqsUpTo(ItemKinds, MaxItems), 0..MaxBudget)

InitWide == InitOf({"unbounded"}, SeqsUpTo(WideKinds, WideMaxItems), 0..WideMaxBudget)

(***************************************************************************)
(* solve lines 68-81 and iterative_bnb lines 35-41: filter, sort, start   *)
(* the search and jump to begin.                                           *)
(***************************************************************************)
Preprocess ==
    /\ pc = "solve"
    /\ \E ids \in SortedOrders(items, budget) :
          /\ permuted_id' = ids
          /\ sorted_items' = [i \in 1..Len(ids) |-> items[ids[i] + 1]]
    /\ depth' = 0
    /\ value' = 0
    /\ best_value' = 0
    /\ budget_left' = budget
    /\ stack' = <<>>
    /\ best_stack' = <<>>
    /\ pc' = "begin"
    /\ UNCHANGED <<variant, items, budget, earlier, taken, err, garbage>>

(***************************************************************************)
(* Label begin, lines 53-55 (0/1) and 305-308 (unbounded), and the ++depth *)
(* of the for loop: commit the item at depth.  Nothing tests depth against *)
(* nb_items on the way here from "goto begin", so with an empty working   *)
(* list sorted_items[0] is read past the end: the run crashes or goes on  *)
(* with what the memory holds.  After remove_if has removed every item    *)
(* and erase has shrunk the vectors to size 0, their storage still holds  *)
(* the first item and its index 0; an Instance without items leaves no    *)
(* storage at all, and the read yields anything.  In the unbounded        *)
(* variant a zero cost divides by zero.                                    *)
(***************************************************************************)
LeftoverItems == IF items = <<>> THEN ItemKinds ELSE {items[1]}

\* Likewise for permuted_id[0]; -1 is an index outside the Solution's vector.
LeftoverIds == IF items = <<>> THEN {-1} ELSE {0}

\* A commit that takes one unit whatever the variant.
CommitCountOne(item, bl) == 1

CommitCount(item, bl) ==
    IF variant = "zero_one" THEN 1 ELSE Quotient(bl, item.cost)

Commit ==
    /\ pc = "begin"
    /\ \E g \in (IF depth < Len(sorted_items) THEN {garbage} ELSE LeftoverItems) :
       LET oob == depth >= Len(sorted_items)
           item == IF oob THEN g ELSE sorted_items[depth + 1]
           div0 == variant = "unbounded" /\ item.cost = 0
       IN \E crash \in (IF oob \/ div0 THEN BOOLEAN ELSE {FALSE}) :
          LET nb_take == CommitCount(item, budget_left) IN
          /\ err' = IF err # "none" THEN err
                    ELSE IF oob THEN "out_of_range"
                    ELSE IF div0 THEN "div_by_zero" ELSE "none"
          /\ IF crash
             THEN /\ pc' = "crash"
                  /\ UNCHANGED <<depth, value, budget_left, stack, garbage>>
             ELSE /\ garbage' = g
                  /\ value' = value + nb_take * item.value
                  /\ budget_left' = budget_left - nb_take * item.cost
                  /\ stack' = Append(stack, [pos |-> depth, count |-> nb_take])
                  /\ depth' = depth + 1
                  /\ pc' = "for"
    /\ UNCHANGED <<variant, items, budget, earlier, sorted_items, permuted_id,
                   best_value, best_stack, taken>>

\* Lines 48-49 / 300-301: the item at depth does not fit; continue.
Skip ==
    /\ pc = "for"
    /\ depth < Len(sorted_items)
    /\ budget_left < sorted_items[depth + 1].cost
    /\ depth' = depth + 1
    /\ UNCHANGED <<variant, items, budget, earlier, sorted_items, permuted_id, pc, value,
                   budget_left, best_value, stack, best_stack, taken, err, garbage>>

\* The pruning test of lines 50 / 302 is reached.
AtBoundTest ==
    /\ pc = "for"
    /\ depth < Len(sorted_items)
    /\ budget_left >= sorted_items[depth + 1].cost

CurrentBound == UpperBound(sorted_items, depth, value, budget_left)

ErrAfterBound(b) ==
    IF err = "none" /\ b.div0 THEN "div_by_zero" ELSE err

\* Lines 50-51 / 302-303: the bound does not exceed the incumbent; goto
\* backtrack.  A division by zero inside computeUpperBound may crash the run.
Prune ==
    /\ AtBoundTest
    /\ BoundLeq(CurrentBound, best_value)
    /\ \E crash \in (IF CurrentBound.div0 THEN BOOLEAN ELSE {FALSE}) :
          pc' = IF crash THEN "crash" ELSE "while"
    /\ err' = ErrAfterBound(CurrentBound)
    /\ UNCHANGED <<variant, items, budget, earlier, sorted_items, permuted_id, depth, value,
                   budget_left, best_value, stack, best_stack, taken, garbage>>

\* Line 50 / 302 with the bound above the incumbent: fall through to begin.
Descend ==
    /\ AtBoundTest
    /\ ~BoundLeq(CurrentBound, best_value)
    /\ \E crash \in (IF CurrentBound.div0 THEN BOOLEAN ELSE {FALSE}) :
          pc' = IF crash THEN "crash" ELSE "begin"
    /\ err' = ErrAfterBound(CurrentBound)
    /\ UNCHANGED <<variant, items, budget, earlier, sorted_items, permuted_id, depth, value,
                   budget_left, best_value, stack, best_stack, taken, garbage>>

\* The for loop ends (depth == nb_items); lines 57-60 / 310-313 record the
\* stack as the incumbent when value > best_value.
Record ==
    /\ pc = "for"
    /\ depth >= Len(sorted_items)
    /\ IF value <= best_value
       THEN UNCHANGED <<best_value, best_stack>>
       ELSE /\ best_value' = value
            /\ best_stack' = stack
    /\ pc' = "while"
    /\ UNCHANGED <<variant, items, budget, earlier, sorted_items, permuted_id, depth, value,
                   budget_left, stack, taken, err, garbage>>

\* A backtrack that resumes at the undone position instead of behind it.
NextDepthStuck(d) == d

\* depth++ of lines 47 / 299, after the undo
NextDepth(d) == d + 1

\* Lines 44-45 (0/1): pop.  Lines 295-297 (unbounded): one copy fewer, and
\* pop only when the count reaches zero.
PopOne(st) ==
    LET top == st[Len(st)] IN
    IF variant = "zero_one" \/ top.count - 1 = 0
    THEN SubSeq(st, 1, Len(st) - 1)
    ELSE [st EXCEPT ![Len(st)].count = top.count - 1]

\* Lines 43-47 / 294-299: the while test holds; undo one unit of the top
\* decision and resume the for loop behind it.
Backtrack ==
    /\ pc = "while"
    /\ stack # <<>>
    /\ stack[Len(stack)].count > -MaxUnderflow
    /\ LET d == stack[Len(stack)].pos IN
          /\ stack' = PopOne(stack)
          /\ value' = value - ItemAt(d).value
          /\ budget_left' = budget_left + ItemAt(d).cost
          /\ depth' = NextDepth(d)
    /\ pc' = "for"
    /\ UNCHANGED <<variant, items, budget, earlier, sorted_items, permuted_id,
                   best_value, best_stack, taken, err, garbage>>

\* Lines 43 and 62 / 294 and 315: the stack is empty; return best_stack.
Return ==
    /\ pc = "while"
    /\ stack = <<>>
    /\ pc' = "assemble"
    /\ UNCHANGED <<variant, items, budget, earlier, sorted_items, permuted_id, depth, value,
                   budget_left, best_value, stack, best_stack, taken, err, garbage>>

(***************************************************************************)
(* solve lines 83-88 (0/1: solution.add) and 337-343 (unbounded:          *)
(* solution.set): the whole loop over best_stack, top first.  A position  *)
(* past the end of permuted_id yields the index gi the memory holds, or   *)
(* the run crashes.                                                        *)
(***************************************************************************)
OriginalId(p, gi) == IF p < Len(permuted_id) THEN permuted_id[p + 1] ELSE gi

Decision(bs, i, gi) ==
    LET ks == {k \in 1..Len(bs) : OriginalId(bs[k].pos, gi) = i} IN
    IF ks = {} THEN 0
    ELSE IF variant = "zero_one" THEN 1
    ELSE bs[CHOOSE k \in ks : \A m \in ks : k <= m].count

Assemble ==
    /\ pc = "assemble"
    /\ LET oob == \E k \in 1..Len(best_stack) :
                      best_stack[k].pos >= Len(permuted_id)
       IN \E crash \in (IF oob THEN BOOLEAN ELSE {FALSE}),
             gi \in (IF oob THEN LeftoverIds ELSE {-1}) :
          /\ err' = IF err = "none" /\ oob THEN "out_of_range" ELSE err
          /\ IF crash
             THEN pc' = "crash" /\ UNCHANGED taken
             ELSE /\ taken' = [i \in 1..Len(items) |->
                                  Decision(best_stack, i - 1, gi)]
                  /\ pc' = "done"
    /\ UNCHANGED <<variant, items, budget, earlier, sorted_items, permuted_id, depth, value,
                   budget_left, best_value, stack, best_stack, garbage>>

Next ==
    \/ Preprocess
    \/ Commit
    \/ Skip
    \/ Prune
    \/ Descend
    \/ Record
    \/ Backtrack
    \/ Return
    \/ Assemble

Spec == Init /\ [][Next]_vars

(***************************************************************************)
(* The caller keeps the total value of a returned Solution, raises the    *)
(* budget of the same Instance with setBudget (line 74) and calls solve   *)
(* again (the solver holds no state across calls).                         *)
(***************************************************************************)
SolveAgain ==
    /\ pc = "done"
    /\ earlier = <<>>
    /\ \E b \in (budget + 1)..MaxBudget : budget' = b
    /\ earlier' = <<[budget |-> budget, value |-> getValue]>>
    /\ pc' = "solve"
    /\ UNCHANGED <<variant, items, sorted_items, permuted_id, depth, value,
                   budget_left, best_value, stack, best_stack, taken, err, garbage>>

NextTwice ==
    \/ Next
    \/ SolveAgain

\* Two calls of solve on one Instance, the second with a larger budget.
SpecTwice == Init /\ [][NextTwice]_vars

\* The wider unbounded instances, same program.
SpecWide == InitWide /\ [][Next]_vars

\* The search is a sequential loop: it runs while a step is possible.
FairSpec == Init /\ [][Next]_vars /\ WF_vars(Next)

(***************************************************************************)
(* Reference values the claims compare the program with.                   *)
(***************************************************************************)
Max(S) == CHOOSE x \in S : \A y \in S : x >= y

SubsetValue(its, S) == SumSeq([i \in 1..Len(its) |-> IF i \in S THEN its[i].value ELSE 0])

SubsetCost(its, S) == SumSeq([i \in 1..Len(its) |-> IF i \in S THEN its[i].cost ELSE 0])

\* Best value of a subset of the items at positions >= from within budget b.
BestSubsetValue(its, from, b) ==
    Max({SubsetValue(its, S) :
            S \in {T \in SUBSET ((from + 1)..Len(its)) : SubsetCost(its, T) <= b}})

\* Best value of copy counts of the (positive-cost) items at positions >= from
\* within budget b.
RECURSIVE BestCopiesValue(_, _, _)
BestCopiesValue(its, from, b) ==
    Max({0} \cup {its[i].value + BestCopiesValue(its, from, b - its[i].cost) :
                     i \in {j \in (from + 1)..Len(its) :
                                its[j].cost > 0 /\ its[j].cost <= b}})

PositiveCosts(its) == \A i \in 1..Len(its) : its[i].cost > 0

\* b >= n for a bound b = num/den
BoundGeq(b, n) == b.num >= n * b.den

Searching == pc \notin {"solve"}

(***************************************************************************)
(* C1.  0/1 variant: the total value of the returned Solution is the       *)
(* maximum total value over the subsets of the items within the budget.   *)
(* Stated for the runs that meet no undefined behaviour, which the claim  *)
(* covers among others.                                                    *)
(***************************************************************************)
C1_ZeroOneOptimal ==
    (pc = "done" /\ variant = "zero_one" /\ err = "none")
        => getValue = BestSubsetValue(items, 0, budget)

(***************************************************************************)
(* C2.  Unbounded variant, strictly positive costs: the total value of the *)
(* returned Solution is the maximum total value over the copy counts      *)
(* within the budget.  Stated for the runs that meet no undefined         *)
(* behaviour.                                                              *)
(***************************************************************************)
C2_UnboundedOptimal ==
    (pc = "done" /\ variant = "unbounded" /\ err = "none" /\ PositiveCosts(items))
        => getValue = BestCopiesValue(items, 0, budget)

(***************************************************************************)
(* C3.  Feasibility: the returned Solution has totalCost <= budget.        *)
(***************************************************************************)
C3_Feasible == pc = "done" => getCost <= budget

(***************************************************************************)
(* C4.  With an empty working list solve is not an error: no position     *)
(* outside the working list or the permutation is read, the search ends   *)
(* with an empty best stack and incumbent 0, and nothing is taken.        *)
(***************************************************************************)
C4_EmptyWorkingListSafe ==
    (Searching /\ sorted_items = <<>>)
        => /\ err = "none"
           /\ pc # "crash"
           /\ pc \in {"assemble", "done"} => best_stack = <<>> /\ best_value = 0
           /\ pc = "done" => \A i \in 1..Len(items) : taken[i] = 0

(***************************************************************************)
(* C5.  Budget 0: the returned Solution has totalValue 0 and totalCost 0.  *)
(* Stated for the instances in which no item is both free and of positive *)
(* value, where 0 is the best value there is.                              *)
(***************************************************************************)
C5_ZeroBudgetYieldsZero ==
    (/\ pc = "done"
     /\ budget = 0
     /\ \A i \in 1..Len(items) : ~(items[i].cost = 0 /\ items[i].value > 0))
        => getValue = 0 /\ getCost = 0

(***************************************************************************)
(* C6.  Totality: solve meets no error state (no division by zero, no     *)
(* index out of range) and returns.  Stated for the non-empty working     *)
(* lists; the empty one is C4.                                             *)
(***************************************************************************)
C6_Total ==
    (Searching /\ sorted_items # <<>>) => err = "none" /\ pc # "crash"

(***************************************************************************)
(* C7.  Exclusion: an item whose cost exceeds the budget never occupies a *)
(* working-list position and has decision 0 in the returned Solution.     *)
(***************************************************************************)
C7_Exclusion ==
    /\ \A k \in 1..Len(permuted_id) : items[permuted_id[k] + 1].cost <= budget
    /\ pc = "done" =>
          \A i \in 1..Len(items) : items[i].cost > budget => taken[i] = 0

(***************************************************************************)
(* C8.  0/1 estimator: on the sorted working list, for every depth, value *)
(* and budget_left >= 0, computeUpperBound is at least value plus the     *)
(* best value of a subset of the items from depth on within budget_left.  *)
(***************************************************************************)
C8_ZeroOneBoundAdmissible ==
    (Searching /\ variant = "zero_one") =>
        \A d \in 0..Len(sorted_items), v \in 0..MaxValue, bl \in 0..budget :
            BoundGeq(computeUpperBound(sorted_items, d, v, bl),
                     v + BestSubsetValue(sorted_items, d, bl))

(***************************************************************************)
(* C9.  Unbounded estimator: on a sorted working list of positive-cost    *)
(* items, for every depth, value and budget_left >= 0, computeUpperBound  *)
(* is at least value plus the best value of copy counts of the items from *)
(* depth on within budget_left.                                            *)
(***************************************************************************)
C9_UnboundedBoundAdmissible ==
    (Searching /\ variant = "unbounded" /\ PositiveCosts(sorted_items)) =>
        \A d \in 0..Len(sorted_items), v \in 0..MaxValue, bl \in 0..budget :
            BoundGeq(computeUpperBoundUnbounded(sorted_items, d, v, bl),
                     v + BestCopiesValue(sorted_items, d, bl))

(***************************************************************************)
(* C10.  Termination: with a non-empty working list (and positive costs   *)
(* in the unbounded variant) the search, once entered, reaches a          *)
(* backtrack with an empty stack and returns.                              *)
(***************************************************************************)
C10_Terminates ==
    (/\ pc = "begin"
     /\ sorted_items # <<>>
     /\ variant = "unbounded" => PositiveCosts(sorted_items))
        ~> (pc = "assemble")

\* A search over two or more items that has alternated descend and backtrack
\* phases, improved its incumbent and returned.
C10_Witness ==
    /\ pc = "assemble"
    /\ Len(sorted_items) >= 2
    /\ stack = <<>>
    /\ Len(best_stack) >= 1
    /\ best_stack[1].pos >= 1
    /\ err = "none"

(***************************************************************************)
(* C11.  0/1 variant: every item of cost 0 and strictly positive value is *)
(* taken in the returned Solution, for every budget >= 0.                  *)
(***************************************************************************)
C11_FreeItemsTaken ==
    (pc = "done" /\ variant = "zero_one")
        => \A i \in 1..Len(items) :
              (items[i].cost = 0 /\ items[i].value > 0) => taken[i] = 1

(***************************************************************************)
(* C12.  Monotonicity: for a fixed item list and budgets b1 <= b2, the    *)
(* total value solve returns for b1 is at most the one it returns for b2. *)
(***************************************************************************)
C12_Monotone ==
    (pc = "done" /\ earlier # <<>>)
        => /\ earlier[1].budget <= budget
           /\ earlier[1].value <= getValue

(***************************************************************************)
(* C13.  Result assembly: every position on best_stack is a position of   *)
(* permuted_id, distinct positions map to distinct original indices, and  *)
(* the totals of the returned Solution equal best_value and the cost of   *)
(* best_stack.  Stated for the Instances that hold at least one item.     *)
(***************************************************************************)
C13_AssemblyExact ==
    (pc = "done" /\ items # <<>>) =>
        /\ \A k \in 1..Len(best_stack) : best_stack[k].pos < Len(permuted_id)
        /\ \A k, m \in 1..Len(best_stack) :
              k # m => permuted_id[best_stack[k].pos + 1]
                          # permuted_id[best_stack[m].pos + 1]
        /\ getValue = best_value
        /\ getCost = StackCost(best_stack)

(***************************************************************************)
(* C14.  Unbounded variant, a single item of value v and cost c with      *)
(* 0 < c <= budget.                                                        *)
(***************************************************************************)
SingleItemDone ==
    /\ pc = "done"
    /\ variant = "unbounded"
    /\ Len(items) = 1
    /\ items[1].cost > 0
    /\ items[1].cost <= budget

SingleItemFull ==
    /\ taken[1] = budget \div items[1].cost
    /\ getValue = (budget \div items[1].cost) * items[1].value
    /\ getCost = (budget \div items[1].cost) * items[1].cost

\* C14 as claimed, for every v >= 0: solve returns count floor(budget / c),
\* so totalValue == floor(budget/c) * v and totalCost == floor(budget/c) * c.
C14_SingleItemAnyValue == SingleItemDone => SingleItemFull

\* C14 as amended: for v > 0 solve returns count floor(budget / c), with the
\* totals floor(budget/c) * v and floor(budget/c) * c; for v == 0 it returns
\* count 0.
C14_SingleItem ==
    SingleItemDone =>
        IF items[1].value > 0 THEN SingleItemFull ELSE taken[1] = 0

\* Several copies of the one item have been taken.
C14_Witness ==
    /\ SingleItemDone
    /\ items[1].value > 0
    /\ taken[1] >= 2

(***************************************************************************)
(* C15.  Preprocessor: once solve has filtered and sorted, permuted_id is *)
(* injective and holds exactly the indices of the items with              *)
(* cost <= budget, sorted_items[i] is the original item at index          *)
(* permuted_id[i], and the working list is in non-increasing ratio order  *)
(* with the zero-cost items first.                                         *)
(***************************************************************************)
RatioNotBelow(a, b) ==
    IF b.cost = 0 THEN a.cost = 0
    ELSE a.cost = 0 \/ a.value * b.cost >= b.value * a.cost

C15_Preprocessed ==
    Searching =>
        /\ Len(sorted_items) = Len(permuted_id)
        /\ \A i, j \in 1..Len(permuted_id) :
              i # j => permuted_id[i] # permuted_id[j]
        /\ {permuted_id[i] : i \in 1..Len(permuted_id)}
              = {i - 1 : i \in {j \in 1..Len(items) : items[j].cost <= budget}}
        /\ \A i \in 1..Len(permuted_id) :
              sorted_items[i] = items[permuted_id[i] + 1]
        /\ \A i, j \in 1..Len(sorted_items) :
              i < j => RatioNotBelow(sorted_items[i], sorted_items[j])

\* The sort has moved a free item in front of a costly one.
C15_Witness ==
    /\ Searching
    /\ Len(items) = 2
    /\ items[1].cost > 0
    /\ items[2].cost = 0
    /\ permuted_id = <<1, 0>>

(***************************************************************************)
(* C16.  Running totals: between the steps of iterative_bnb, value is the *)
(* sum of value * copies over the decision stack, budget_left is the      *)
(* budget minus the sum of cost * copies over it, and budget_left >= 0,   *)
(* the unconditional first commit included.                                *)
(***************************************************************************)
InSearch == pc \in {"begin", "for", "while"}

C16_RunningTotals ==
    (InSearch /\ items # <<>>) =>
        /\ value = StackValue(stack)
        /\ budget_left = budget - StackCost(stack)
        /\ budget_left >= 0

(***************************************************************************)
(* C17.  Incumbent recording: every step that ends a descend phase, by    *)
(* running off the end of the working list or by the pruning test, leaves *)
(* the current stack recorded as the incumbent if value > best_value and  *)
(* the incumbent untouched otherwise; so at the start of every backtrack  *)
(* step best_value >= value, also after 'goto backtrack'.                 *)
(***************************************************************************)
EndsDescend == pc = "for" /\ pc' = "while"

RecordedIfBetter ==
    IF value > best_value
    THEN best_value' = value /\ best_stack' = stack
    ELSE UNCHANGED <<best_value, best_stack>>

C17_IncumbentRecorded ==
    /\ [](pc = "while" => value <= best_value)
    /\ [][EndsDescend => RecordedIfBetter]_vars

\* A descend phase abandoned by the pruning test with a non-empty path.
C17_Witness ==
    /\ pc = "while"
    /\ err = "none"
    /\ depth < Len(sorted_items)
    /\ value > 0
    /\ best_value >= value

(***************************************************************************)
(* C18.  Incumbent consistency: during the search best_value never        *)
(* decreases, best_stack changes only when best_value strictly increases, *)
(* best_value is the sum of value * copies over best_stack, and the sum   *)
(* of cost * copies over best_stack is <= the budget.                      *)
(***************************************************************************)
IncumbentSound ==
    /\ best_value = StackValue(best_stack)
    /\ StackCost(best_stack) <= budget

IncumbentStep ==
    /\ best_value' >= best_value
    /\ best_stack' # best_stack => best_value' > best_value

C18_IncumbentConsistent ==
    /\ []((InSearch /\ items # <<>>) => IncumbentSound)
    /\ [][InSearch => IncumbentStep]_vars

(***************************************************************************)
(* C19.  Decision-stack shape: during the search the positions on the     *)
(* stack increase strictly from bottom to top and lie in [0, nb_items);   *)
(* in the unbounded variant every entry has a copy count >= 1, a          *)
(* backtrack step lowers the top count by exactly one, undoes exactly one *)
(* copy's value and cost, and pops the entry exactly when its count       *)
(* reaches zero.                                                           *)
(***************************************************************************)
StackShape ==
    /\ \A k, m \in 1..Len(stack) : k < m => stack[k].pos < stack[m].pos
    /\ \A k \in 1..Len(stack) :
          /\ 0 <= stack[k].pos
          /\ stack[k].pos < Len(sorted_items)
          /\ variant = "unbounded" => stack[k].count >= 1

UndoesOneCopy ==
    LET n == Len(stack)
        top == stack[n]
    IN /\ value' = value - ItemAt(top.pos).value
       /\ budget_left' = budget_left + ItemAt(top.pos).cost
       /\ IF top.count = 1
          THEN stack' = SubSeq(stack, 1, n - 1)
          ELSE stack' = [stack EXCEPT ![n].count = top.count - 1]

BacktrackStep == pc = "while" /\ pc' = "for" /\ variant = "unbounded"

C19_StackShape ==
    /\ []((InSearch /\ items # <<>>) => StackShape)
    /\ [][BacktrackStep => UndoesOneCopy]_vars

====
